---- MODULE Spec2Model ----
(***************************************************************************)
(* teapot-server (src/server.py): the brewing state shared by the worker   *)
(* processes (POTS_BREWING), the one-second traffic window (TRAFFIC) with  *)
(* its three manager locks, and the BREW handler `slash`.                  *)
(*                                                                         *)
(* Every request is handled by a worker of its own; request r is the r-th  *)
(* request to arrive.  One action is one operation on a shared manager     *)
(* dict together with the local code that follows it; the acquire() of a   *)
(* lock goes with the dict operation after it, the release() with the dict *)
(* operation before it.                                                    *)
(***************************************************************************)
EXTENDS Integers, Sequences, FiniteSets, TLC

(* ------------------------------ bounds -------------------------------- *)

\* Number of requests (slash requests or direct increase_traffic_by_request calls).
NumRequests == 3

\* The wall clock int(time.time()) runs over 0..MaxSecond.
MaxSecond == 2

\* The further requests the workers serve in all, each after its handler
\* for the request before has returned or raised.
MaxServed == 2

(* --------------------------- configuration ---------------------------- *)

\* The values of the environment variable MIN_REQUESTS_COUNT that are tried.
Thresholds == {2, 3}

TEA_CONTENT_TYPE == "message/teapot"

TEA_VARIANTS == <<"english-breakfast", "earl-grey">>

HIGH_TRAFFIC_VARIANT == "earl-grey"

(* ------------------------------ values -------------------------------- *)

Requests == 1..NumRequests

Seconds == 0..MaxSecond

\* A header that the request does not carry (dict.get then yields its default).
Absent == "<absent>"

\* Python's None, for a local that has not been assigned.
None == "<none>"

Range(s) == {s[i] : i \in DOMAIN s}

\* request.headers.get(name, default)
HeaderGet(header, default) == IF header = Absent THEN default ELSE header

\* A japronto request, or the FakeRequest of the tests for a direct call.
Request(op, method, remote_addr, endpoint, content_type, email, body) ==
    [op |-> op, method |-> method, remote_addr |-> remote_addr, endpoint |-> endpoint,
     content_type |-> content_type, email |-> email, body |-> body]

NoRequest == Request("", "", "", "", Absent, Absent, "")

\* The client and the variant a request addresses.
ClientAndVariant(req) == <<req.remote_addr, req.endpoint>>

\* request.Response(code=..., text=..., headers=...); args are the values
\* the f-string of the text interpolates.
Response(code, text, args, headers) ==
    [code |-> code, text |-> text, args |-> args, headers |-> headers]

NoResponse == Response(0, "", <<>>, "")

\* cur_second_int before line 93 assigns it.
NoSecond == -1

(* --------------------------- pure functions --------------------------- *)

\* The key that leaves the client out.
get_request_key_of_variant(req) == <<"", req.endpoint>>

\* The key that leaves the endpoint out.
get_request_key_of_client(req) == <<req.remote_addr, "">>

\* f'{request.remote_addr}/{endpoint}': the pair stands for the joined string
\* (neither part contains a slash, so the join is injective).
get_request_key(req) == <<req.remote_addr, req.endpoint>>

\* dict.get(key, default) / key in dict / dict[key] = value on a manager dict.
DictGet(d, key, default) == IF key \in DOMAIN d THEN d[key] ELSE default

DictSet(d, key, val) == [x \in (DOMAIN d) \cup {key} |-> IF x = key THEN val ELSE d[x]]

EmptyDict == [x \in {} |-> 0]

\* The store that sets the flag whatever the state asked for.
set_brewing_state_true(pots, req, brewing_state) == DictSet(pots, get_request_key(req), TRUE)

set_brewing_state(pots, req, brewing_state) == DictSet(pots, get_request_key(req), brewing_state)

\* The lookup that takes an absent key for a brewing pot.
get_brewing_state_or_true(pots, req) == DictGet(pots, get_request_key(req), TRUE)

get_brewing_state(pots, req) == DictGet(pots, get_request_key(req), FALSE)

\* The increment that stores the old value again.
increase_or_set_same(dict_obj, key, default) ==
    IF key \in DOMAIN dict_obj THEN dict_obj[key] ELSE default

\* The value increase_or_set computes from the dict under the lock.
increase_or_set(dict_obj, key, default) ==
    IF key \in DOMAIN dict_obj THEN dict_obj[key] + 1 ELSE default

\* A lock that does not make its callers wait.
acquire_without_waiting(lock) == TRUE

\* A manager lock is 0 when free, else the request whose worker holds it;
\* acquire() blocks until the lock is free.
acquire(lock) == lock = 0

\* The cleanup that spares the second just before the caller's.
is_old_second_but_last(second, cur) == second + 1 < cur

\* The cleanup that takes the caller's second for an old one.
is_old_or_current_second(second, cur) == second <= cur

\* Cleanup deletes a bucket iff its second is before the caller's second.
is_old_second(second, cur) == second < cur

\* TRAFFIC is the sequence of its items in insertion order.
TrafficKeys(traffic) == [i \in DOMAIN traffic |-> traffic[i].second]

\* The test that never finds the second.
never_in_traffic(traffic, second) == FALSE

TrafficHas(traffic, second) == \E i \in DOMAIN traffic : traffic[i].second = second

TrafficGet(traffic, second) ==
    traffic[CHOOSE i \in DOMAIN traffic : traffic[i].second = second].counter

\* TRAFFIC[second] = counter: a new key goes last, a present key keeps its place.
TrafficSet(traffic, second, counter) ==
    IF TrafficHas(traffic, second)
      THEN [i \in DOMAIN traffic |->
              IF traffic[i].second = second
                THEN [second |-> second, counter |-> counter] ELSE traffic[i]]
      ELSE Append(traffic, [second |-> second, counter |-> counter])

\* del TRAFFIC[second]; the second is present, the deletions being made
\* under TRAFFIC_LOCK_DEL_SECOND from a list read under it.
TrafficDel(traffic, second) == SelectSeq(traffic, LAMBDA item : item.second # second)

(* ------------------------------- state -------------------------------- *)

VARIABLES
    MIN_REQUESTS_COUNT,      \* configuration, read from the environment at start
    now,                     \* int(time.time()) as last read
    POTS_BREWING,            \* manager dict: request key -> bool
    TRAFFIC,                 \* manager dict: second -> counter dict (by reference)
    counters,                \* the dicts made by mp_manager.dict(), by reference number
    TRAFFIC_LOCK_INCREASE,
    TRAFFIC_LOCK_ADD_SECOND,
    TRAFFIC_LOCK_DEL_SECOND,
    pc,                      \* where each request's worker is
    request,                 \* the request each worker handles
    arrived_after,           \* the requests that had returned when this one arrived
    last_set_state,          \* history: for each client and variant, the state of the
                             \*   latest set_brewing_state that completed for them
    is_brewing,              \* local of slash
    cur_second_int,          \* locals of increase_traffic_by_request
    seconds_left,            \*   the rest of the list TRAFFIC.keys() being iterated
    cur_second_counter,
    value,                   \* local of increase_or_set
    traffic,                 \* what increase_traffic_by_request returned
    email_calls,             \* the calls of email_client.send made for the request:
                             \*   for each, whether it returned or raised
    response,                \* what slash returned
    served                   \* the requests taken by workers that had served one before

vars == <<MIN_REQUESTS_COUNT, served, now, POTS_BREWING, TRAFFIC, counters, TRAFFIC_LOCK_INCREASE,
          TRAFFIC_LOCK_ADD_SECOND, TRAFFIC_LOCK_DEL_SECOND, pc, request,
          arrived_after, last_set_state, is_brewing, cur_second_int, seconds_left,
          cur_second_counter, value, traffic, email_calls, response>>

shared == <<POTS_BREWING, TRAFFIC, counters, TRAFFIC_LOCK_INCREASE,
            TRAFFIC_LOCK_ADD_SECOND, TRAFFIC_LOCK_DEL_SECOND>>

traffic_locals == <<cur_second_int, seconds_left, cur_second_counter, value, traffic>>

Returned == {"done", "raised"}

\* The gate that also rejects the count equal to the threshold.
traffic_too_low_or_equal(traffic_count) == traffic_count <= MIN_REQUESTS_COUNT

\* traffic < MIN_REQUESTS_COUNT rejects the start of the high traffic pot.
traffic_too_low(traffic_count) == traffic_count < MIN_REQUESTS_COUNT

Init ==
    /\ MIN_REQUESTS_COUNT \in Thresholds
    /\ now = 0
    /\ POTS_BREWING = EmptyDict
    /\ TRAFFIC = <<>>
    /\ counters = <<>>
    /\ TRAFFIC_LOCK_INCREASE = 0
    /\ TRAFFIC_LOCK_ADD_SECOND = 0
    /\ TRAFFIC_LOCK_DEL_SECOND = 0
    /\ pc = [r \in Requests |-> "idle"]
    /\ request = [r \in Requests |-> NoRequest]
    /\ arrived_after = [r \in Requests |-> {}]
    /\ last_set_state = EmptyDict
    /\ is_brewing = [r \in Requests |-> None]
    /\ cur_second_int = [r \in Requests |-> NoSecond]
    /\ seconds_left = [r \in Requests |-> <<>>]
    /\ cur_second_counter = [r \in Requests |-> 0]
    /\ value = [r \in Requests |-> 0]
    /\ traffic = [r \in Requests |-> 0]
    /\ email_calls = [r \in Requests |-> <<>>]
    /\ response = [r \in Requests |-> NoResponse]
    /\ served = 0

\* Requests are numbered in the order of their arrival.
is_next_arrival(r) == pc[r] = "idle" /\ \A q \in 1..(r - 1) : pc[q] # "idle"

(* ------------------------------- slash -------------------------------- *)

\* The test that takes every endpoint for a pot.
any_endpoint_is_tea_variant(endpoint) == TRUE

\* elif endpoint in TEA_VARIANTS
is_tea_variant(endpoint) == endpoint \in Range(TEA_VARIANTS)

\* Whether slash reaches the lookup of the brewing state (line 154).
reaches_pot(req) ==
    /\ req.method = "BREW"
    /\ req.endpoint # ""
    /\ is_tea_variant(req.endpoint)
    /\ HeaderGet(req.content_type, "") = TEA_CONTENT_TYPE

\* The check that never finds the pot busy.
pot_is_never_busy(brewing) == FALSE

\* A start on a pot that is brewing is turned away.
pot_is_busy(brewing) == brewing

\* The check that lets every stop through.
always_brewed(brewing) == FALSE

\* A stop on a pot that is not brewing is turned away.
nothing_brewed(brewing) == ~brewing

\* The check that takes an empty Email header for an address.
email_header_absent(req) == req.email = Absent

\* A stop needs a non-empty Email header.
email_missing(req) == HeaderGet(req.email, "") = ""

\* The gate that asks traffic of every variant.
every_variant_needs_traffic(req) == TRUE

\* if request.body == b'start'
body_is_start(req) == req.body = "start"

\* The test that takes every body but start for stop.
body_is_not_start(req) == req.body # "start"

\* if request.body == b'stop'
body_is_stop(req) == req.body = "stop"

\* The traffic gate applies to the high traffic variant only.
needs_traffic(req) == req.endpoint = HIGH_TRAFFIC_VARIANT

\* slash from its entry to its first return, or to the first operation on
\* shared state after the lookup of the brewing state: the place it goes to
\* and the response it returns there.
slash_entry(req, brewing) ==
    IF req.method = "GET" THEN
        [pc |-> "done", response |-> Response(200, "HOME_HTML_CONTENT", <<>>, "Content-Type")]
    ELSE IF req.method # "BREW" THEN
        [pc |-> "done", response |-> Response(405, "", <<>>, "")]
    ELSE IF req.endpoint = "" THEN
        [pc |-> "done", response |-> Response(300, "", <<>>, "Alternates")]
    ELSE IF ~is_tea_variant(req.endpoint) THEN
        [pc |-> "done",
         response |-> Response(503, "is not supported for this pot", <<req.endpoint>>, "")]
    ELSE IF HeaderGet(req.content_type, "") # TEA_CONTENT_TYPE THEN
        [pc |-> "done", response |-> Response(400, "", <<>>, "Alternates")]
    ELSE IF body_is_start(req) THEN
        IF pot_is_busy(brewing) THEN
            [pc |-> "done", response |-> Response(503, "Pot is busy", <<>>, "")]
        ELSE IF needs_traffic(req) THEN
            [pc |-> "time", response |-> NoResponse]
        ELSE
            [pc |-> "set_true", response |-> NoResponse]
    ELSE IF body_is_stop(req) THEN
        IF nothing_brewed(brewing) THEN
            [pc |-> "done",
             response |-> Response(400, "No beverage is being brewed by this pot", <<>>, "")]
        ELSE IF email_missing(req) THEN
            [pc |-> "done",
             response |-> Response(400, "Please set Email header", <<>>, "")]
        ELSE
            [pc |-> "send", response |-> NoResponse]
    ELSE
        [pc |-> "done", response |-> Response(400, "", <<>>, "")]

\* Request r arrives as req and slash runs up to its first return or its
\* first operation on shared state after get_brewing_state.
slash(r, req) ==
    /\ pc[r] = "idle"
    /\ is_next_arrival(r)
    /\ req.op = "slash"
    /\ LET brewing == IF reaches_pot(req) THEN get_brewing_state(POTS_BREWING, req) ELSE None
           to == slash_entry(req, brewing)
       IN  /\ is_brewing' = [is_brewing EXCEPT ![r] = brewing]
           /\ pc' = [pc EXCEPT ![r] = to.pc]
           /\ response' = [response EXCEPT ![r] = to.response]
    /\ request' = [request EXCEPT ![r] = req]
    /\ arrived_after' = [arrived_after EXCEPT ![r] = {q \in Requests : pc[q] \in Returned}]
    /\ UNCHANGED <<MIN_REQUESTS_COUNT, served, last_set_state, now, shared, traffic_locals, email_calls>>

\* The worker of r, whose handler has returned or raised, serves its next
\* request req: slash runs again, with new locals, up to its first return or
\* its first operation on shared state after get_brewing_state.  The pots,
\* the traffic and the locks are the manager's: a lock that the handler
\* before left locked stays so.
next_request(r, req) ==
    /\ pc[r] \in Returned
    /\ served < MaxServed
    /\ req.op = "slash"
    /\ served' = served + 1
    /\ LET brewing == IF reaches_pot(req) THEN get_brewing_state(POTS_BREWING, req) ELSE None
           to == slash_entry(req, brewing)
       IN  /\ is_brewing' = [is_brewing EXCEPT ![r] = brewing]
           /\ pc' = [pc EXCEPT ![r] = to.pc]
           /\ response' = [response EXCEPT ![r] = to.response]
    /\ request' = [request EXCEPT ![r] = req]
    /\ arrived_after' = [arrived_after EXCEPT ![r] = {q \in Requests \ {r} : pc[q] \in Returned}]
    /\ cur_second_int' = [cur_second_int EXCEPT ![r] = NoSecond]
    /\ seconds_left' = [seconds_left EXCEPT ![r] = <<>>]
    /\ cur_second_counter' = [cur_second_counter EXCEPT ![r] = 0]
    /\ value' = [value EXCEPT ![r] = 0]
    /\ traffic' = [traffic EXCEPT ![r] = 0]
    /\ email_calls' = [email_calls EXCEPT ![r] = <<>>]
    /\ UNCHANGED <<MIN_REQUESTS_COUNT, last_set_state, now, shared>>

\* set_brewing_state(request, True); return 202 'Brewing'
start_brewing(r) ==
    /\ pc[r] = "set_true"
    /\ POTS_BREWING' = set_brewing_state(POTS_BREWING, request[r], TRUE)
    /\ last_set_state' = DictSet(last_set_state, ClientAndVariant(request[r]), TRUE)
    /\ pc' = [pc EXCEPT ![r] = "done"]
    /\ response' = [response EXCEPT ![r] = Response(202, "Brewing", <<>>, "")]
    /\ UNCHANGED <<MIN_REQUESTS_COUNT, served, now, TRAFFIC, counters, TRAFFIC_LOCK_INCREASE, TRAFFIC_LOCK_ADD_SECOND,
                   TRAFFIC_LOCK_DEL_SECOND, request, arrived_after, is_brewing,
                   traffic_locals, email_calls>>

\* The handler that calls send with TRAFFIC_LOCK_INCREASE held: a first step
\* acquires the lock, the next one sends and releases it.
send_email_under_lock(r, sent) ==
    /\ pc[r] = "send"
    /\ IF TRAFFIC_LOCK_INCREASE # r
         THEN /\ acquire(TRAFFIC_LOCK_INCREASE)
              /\ TRAFFIC_LOCK_INCREASE' = r
              /\ UNCHANGED <<pc, email_calls, response>>
         ELSE /\ TRAFFIC_LOCK_INCREASE' = 0
              /\ email_calls' = [email_calls EXCEPT ![r] =
                                    Append(@, IF sent THEN "returned" ELSE "raised")]
              /\ pc' = [pc EXCEPT ![r] = IF sent THEN "set_false" ELSE "done"]
              /\ response' = [response EXCEPT ![r] =
                                IF sent THEN @ ELSE Response(500, "Something went wrong", <<>>, "")]
    /\ UNCHANGED <<MIN_REQUESTS_COUNT, served, last_set_state, now, POTS_BREWING, TRAFFIC, counters,
                   TRAFFIC_LOCK_ADD_SECOND, TRAFFIC_LOCK_DEL_SECOND, request,
                   arrived_after, is_brewing, traffic_locals>>

\* The handler that goes on to stop the brewing although send raised.
send_email_unchecked(r, sent) ==
    /\ pc[r] = "send"
    /\ email_calls' = [email_calls EXCEPT ![r] = Append(@, IF sent THEN "returned" ELSE "raised")]
    /\ pc' = [pc EXCEPT ![r] = "set_false"]
    /\ UNCHANGED <<MIN_REQUESTS_COUNT, served, last_set_state, now, shared, request, arrived_after, is_brewing,
                   traffic_locals, response>>

\* email_client.send(...): it returns, or it raises and slash answers 500.
send_email(r, sent) ==
    /\ pc[r] = "send"
    /\ email_calls' = [email_calls EXCEPT ![r] = Append(@, IF sent THEN "returned" ELSE "raised")]
    /\ IF sent
         THEN /\ pc' = [pc EXCEPT ![r] = "set_false"]
              /\ UNCHANGED response
         ELSE /\ pc' = [pc EXCEPT ![r] = "done"]
              /\ response' = [response EXCEPT ![r] =
                                Response(500, "Something went wrong", <<>>, "")]
    /\ UNCHANGED <<MIN_REQUESTS_COUNT, served, last_set_state, now, shared, request, arrived_after, is_brewing,
                   traffic_locals>>

\* set_brewing_state(request, False); return 201 'Finished'
stop_brewing(r) ==
    /\ pc[r] = "set_false"
    /\ POTS_BREWING' = set_brewing_state(POTS_BREWING, request[r], FALSE)
    /\ last_set_state' = DictSet(last_set_state, ClientAndVariant(request[r]), FALSE)
    /\ pc' = [pc EXCEPT ![r] = "done"]
    /\ response' = [response EXCEPT ![r] = Response(201, "Finished", <<>>, "")]
    /\ UNCHANGED <<MIN_REQUESTS_COUNT, served, now, TRAFFIC, counters, TRAFFIC_LOCK_INCREASE, TRAFFIC_LOCK_ADD_SECOND,
                   TRAFFIC_LOCK_DEL_SECOND, request, arrived_after, is_brewing,
                   traffic_locals, email_calls>>

(* -------------------- increase_traffic_by_request --------------------- *)

\* A direct call increase_traffic_by_request(FakeRequest(ip, variant)), as
\* the tests make it from a process of their own.
call_increase_traffic(r, req) ==
    /\ pc[r] = "idle"
    /\ is_next_arrival(r)
    /\ req.op = "increase_traffic_by_request"
    /\ pc' = [pc EXCEPT ![r] = "time"]
    /\ request' = [request EXCEPT ![r] = req]
    /\ arrived_after' = [arrived_after EXCEPT ![r] = {q \in Requests : pc[q] \in Returned}]
    /\ UNCHANGED <<MIN_REQUESTS_COUNT, served, last_set_state, now, shared, is_brewing, traffic_locals, email_calls, response>>

\* cur_second_int = int(time.time()): the clock never runs backwards, so
\* the second read is the one last read or a later one.
read_time(r) ==
    /\ pc[r] = "time"
    /\ \E second \in Seconds :
          /\ second >= now
          /\ now' = second
          /\ cur_second_int' = [cur_second_int EXCEPT ![r] = second]
    /\ pc' = [pc EXCEPT ![r] = "acquire_del"]
    /\ UNCHANGED <<MIN_REQUESTS_COUNT, served, last_set_state, shared, request, arrived_after, is_brewing, seconds_left,
                   cur_second_counter, value, traffic, email_calls, response>>

\* TRAFFIC_LOCK_DEL_SECOND.acquire(), which blocks while the lock is held,
\* and TRAFFIC.keys(): the list the loop iterates.  The loop skips the
\* seconds that are not old, so only the old ones are kept; when there is
\* none the loop is over and the lock is released.
traffic_keys(r) ==
    /\ pc[r] = "acquire_del"
    /\ acquire(TRAFFIC_LOCK_DEL_SECOND)
    /\ LET old == SelectSeq(TrafficKeys(TRAFFIC),
                            LAMBDA second : is_old_second(second, cur_second_int[r]))
       IN  /\ seconds_left' = [seconds_left EXCEPT ![r] = old]
           /\ TRAFFIC_LOCK_DEL_SECOND' = IF old = <<>> THEN 0 ELSE r
           /\ pc' = [pc EXCEPT ![r] = IF old = <<>> THEN "acquire_add" ELSE "clear"]
    /\ UNCHANGED <<MIN_REQUESTS_COUNT, served, last_set_state, now, POTS_BREWING, TRAFFIC, counters, TRAFFIC_LOCK_INCREASE,
                   TRAFFIC_LOCK_ADD_SECOND, request, arrived_after, is_brewing,
                   cur_second_int, cur_second_counter, value, traffic, email_calls,
                   response>>

\* del TRAFFIC[second] for the next old second of the list, and after the
\* last one TRAFFIC_LOCK_DEL_SECOND.release()
delete_old_second(r) ==
    /\ pc[r] = "clear"
    /\ TRAFFIC' = TrafficDel(TRAFFIC, Head(seconds_left[r]))
    /\ seconds_left' = [seconds_left EXCEPT ![r] = Tail(@)]
    /\ TRAFFIC_LOCK_DEL_SECOND' = IF Tail(seconds_left[r]) = <<>> THEN 0 ELSE r
    /\ pc' = [pc EXCEPT ![r] = IF Tail(seconds_left[r]) = <<>> THEN "acquire_add" ELSE "clear"]
    /\ UNCHANGED <<MIN_REQUESTS_COUNT, served, last_set_state, now, POTS_BREWING, counters, TRAFFIC_LOCK_INCREASE,
                   TRAFFIC_LOCK_ADD_SECOND, request, arrived_after, is_brewing,
                   cur_second_int, cur_second_counter, value, traffic, email_calls,
                   response>>

\* TRAFFIC_LOCK_ADD_SECOND.acquire(); if cur_second_int not in TRAFFIC
second_in_traffic(r) ==
    /\ pc[r] = "acquire_add"
    /\ acquire(TRAFFIC_LOCK_ADD_SECOND)
    /\ TRAFFIC_LOCK_ADD_SECOND' = r
    /\ pc' = [pc EXCEPT ![r] =
                IF TrafficHas(TRAFFIC, cur_second_int[r]) THEN "fetch" ELSE "create"]
    /\ UNCHANGED <<MIN_REQUESTS_COUNT, served, last_set_state, now, POTS_BREWING, TRAFFIC, counters, TRAFFIC_LOCK_INCREASE,
                   TRAFFIC_LOCK_DEL_SECOND, request, arrived_after, is_brewing,
                   traffic_locals, email_calls, response>>

\* cur_second_counter = mp_manager.dict(); TRAFFIC[cur_second_int] =
\* cur_second_counter; TRAFFIC_LOCK_ADD_SECOND.release()
add_second(r) ==
    /\ pc[r] = "create"
    /\ counters' = Append(counters, EmptyDict)
    /\ cur_second_counter' = [cur_second_counter EXCEPT ![r] = Len(counters) + 1]
    /\ TRAFFIC' = TrafficSet(TRAFFIC, cur_second_int[r], Len(counters) + 1)
    /\ TRAFFIC_LOCK_ADD_SECOND' = 0
    /\ pc' = [pc EXCEPT ![r] = "acquire_inc"]
    /\ UNCHANGED <<MIN_REQUESTS_COUNT, served, last_set_state, now, POTS_BREWING, TRAFFIC_LOCK_INCREASE, TRAFFIC_LOCK_DEL_SECOND,
                   request, arrived_after, is_brewing, cur_second_int, seconds_left,
                   value, traffic, email_calls, response>>

\* cur_second_counter = TRAFFIC[cur_second_int]; TRAFFIC_LOCK_ADD_SECOND.release()
get_second(r) ==
    /\ pc[r] = "fetch"
    /\ TrafficHas(TRAFFIC, cur_second_int[r])
    /\ cur_second_counter' = [cur_second_counter EXCEPT ![r] =
                                TrafficGet(TRAFFIC, cur_second_int[r])]
    /\ TRAFFIC_LOCK_ADD_SECOND' = 0
    /\ pc' = [pc EXCEPT ![r] = "acquire_inc"]
    /\ UNCHANGED <<MIN_REQUESTS_COUNT, served, last_set_state, now, POTS_BREWING, TRAFFIC, counters, TRAFFIC_LOCK_INCREASE,
                   TRAFFIC_LOCK_DEL_SECOND, request, arrived_after, is_brewing,
                   cur_second_int, seconds_left, value, traffic, email_calls, response>>

\* TRAFFIC[cur_second_int] raises KeyError, the second having been deleted
\* since the test of line 106: the exception leaves the function with
\* TRAFFIC_LOCK_ADD_SECOND held.
get_second_raises(r) ==
    /\ pc[r] = "fetch"
    /\ ~TrafficHas(TRAFFIC, cur_second_int[r])
    /\ pc' = [pc EXCEPT ![r] = "raised"]
    /\ UNCHANGED <<MIN_REQUESTS_COUNT, served, last_set_state, now, shared, request, arrived_after, is_brewing, traffic_locals,
                   email_calls, response>>

\* increase_or_set: lock.acquire(); value = dict_obj[key] + 1 if key in
\* dict_obj else default
read_counter(r) ==
    /\ pc[r] = "acquire_inc"
    /\ acquire(TRAFFIC_LOCK_INCREASE)
    /\ TRAFFIC_LOCK_INCREASE' = r
    /\ value' = [value EXCEPT ![r] =
            increase_or_set(counters[cur_second_counter[r]], get_request_key(request[r]), 1)]
    /\ pc' = [pc EXCEPT ![r] = "write"]
    /\ UNCHANGED <<MIN_REQUESTS_COUNT, served, last_set_state, now, POTS_BREWING, TRAFFIC, counters, TRAFFIC_LOCK_ADD_SECOND,
                   TRAFFIC_LOCK_DEL_SECOND, request, arrived_after, is_brewing,
                   cur_second_int, seconds_left, cur_second_counter, traffic,
                   email_calls, response>>

\* increase_or_set: dict_obj[key] = value; lock.release(); return value.
\* A direct call returns the value; slash answers 424 when the traffic is
\* too low and else goes on to start the brewing.
write_counter(r) ==
    /\ pc[r] = "write"
    /\ counters' = [counters EXCEPT ![cur_second_counter[r]] =
                        DictSet(@, get_request_key(request[r]), value[r])]
    /\ TRAFFIC_LOCK_INCREASE' = 0
    /\ traffic' = [traffic EXCEPT ![r] = value[r]]
    /\ IF request[r].op = "increase_traffic_by_request"
         THEN /\ pc' = [pc EXCEPT ![r] = "done"]
              /\ UNCHANGED response
         ELSE IF traffic_too_low(value[r])
           THEN /\ pc' = [pc EXCEPT ![r] = "done"]
                /\ response' = [response EXCEPT ![r] =
                      Response(424, "Traffic too low to brew",
                               <<request[r].endpoint, value[r], MIN_REQUESTS_COUNT>>, "")]
           ELSE /\ pc' = [pc EXCEPT ![r] = "set_true"]
                /\ UNCHANGED response
    /\ UNCHANGED <<MIN_REQUESTS_COUNT, served, last_set_state, now, POTS_BREWING, TRAFFIC, TRAFFIC_LOCK_ADD_SECOND,
                   TRAFFIC_LOCK_DEL_SECOND, request, arrived_after, is_brewing,
                   cur_second_int, seconds_left, cur_second_counter, value, email_calls>>

(* --------------------------- specifications --------------------------- *)

Addresses == {"127.0.0.1", "127.0.0.2"}

\* BREW requests with the teapot content type on the two pots.
PotRequests ==
    {Request("slash", "BREW", a, e, TEA_CONTENT_TYPE, Absent, "start") :
        a \in Addresses, e \in Range(TEA_VARIANTS)}
    \cup
    {Request("slash", "BREW", a, e, TEA_CONTENT_TYPE, m, "stop") :
        a \in {"127.0.0.1"}, e \in Range(TEA_VARIANTS),
        m \in {Absent, "", "unittest@email.com"}}

\* Requests that slash answers without a change of state.
OtherRequests ==
    {Request("slash", "GET", "127.0.0.1", "", Absent, Absent, ""),
     Request("slash", "PUT", "127.0.0.1", "", Absent, Absent, ""),
     Request("slash", "BREW", "127.0.0.1", "", Absent, Absent, "start"),
     Request("slash", "BREW", "127.0.0.1", "unsupported-tea", TEA_CONTENT_TYPE, Absent, "start"),
     Request("slash", "BREW", "127.0.0.1", "unsupported-tea", "text/plain",
             "unittest@email.com", "stop"),
     Request("slash", "BREW", "127.0.0.1", "earl-grey", Absent, Absent, "start"),
     Request("slash", "BREW", "127.0.0.1", "earl-grey", "text/plain", Absent, "stop"),
     Request("slash", "BREW", "127.0.0.1", "earl-grey", TEA_CONTENT_TYPE, Absent, ""),
     Request("slash", "BREW", "127.0.0.1", "english-breakfast", TEA_CONTENT_TYPE,
             "unittest@email.com", "when")}

\* The requests the workers of the server are sent: starts of the high
\* traffic pot of one client, and stops of it with a contact.
WorkerRequests ==
    {Request("slash", "BREW", "127.0.0.1", HIGH_TRAFFIC_VARIANT, TEA_CONTENT_TYPE, Absent,
             "start"),
     Request("slash", "BREW", "127.0.0.1", HIGH_TRAFFIC_VARIANT, TEA_CONTENT_TYPE,
             "unittest@email.com", "stop")}

\* The calls the tests of the traffic counter make.
TrafficCalls ==
    {Request("increase_traffic_by_request", "", a, e, Absent, Absent, "") :
        a \in Addresses, e \in {"earl-gray", "english-breakfast"}}
    \ {Request("increase_traffic_by_request", "", "127.0.0.2", "english-breakfast",
                Absent, Absent, "")}

\* The steps of slash after the arrival of its request.
SlashStep(r) ==
    \/ start_brewing(r)
    \/ \E sent \in BOOLEAN : send_email(r, sent)
    \/ stop_brewing(r)

\* The steps of increase_traffic_by_request.
TrafficStep(r) ==
    \/ read_time(r)
    \/ traffic_keys(r)
    \/ delete_old_second(r)
    \/ second_in_traffic(r)
    \/ add_second(r)
    \/ get_second(r)
    \/ get_second_raises(r)
    \/ read_counter(r)
    \/ write_counter(r)

Next ==
    \/ \E r \in Requests : \E req \in PotRequests \cup OtherRequests : slash(r, req)
    \/ \E r \in Requests : SlashStep(r)
    \/ \E r \in Requests : TrafficStep(r)

Spec == Init /\ [][Next]_vars

NextTraffic ==
    \/ \E r \in Requests : \E req \in TrafficCalls : call_increase_traffic(r, req)
    \/ \E r \in Requests : TrafficStep(r)

\* The traffic counter does not read MIN_REQUESTS_COUNT.
InitTraffic == Init /\ MIN_REQUESTS_COUNT = 2

SpecTraffic == InitTraffic /\ [][NextTraffic]_vars

\* Fair scheduling: the process of every call gets to run, so a step of
\* the call that stays possible is taken in the end.
FairTraffic == \A r \in Requests : WF_vars(TrafficStep(r))

SpecTrafficFair == SpecTraffic /\ FairTraffic

\* Workers that serve one request after another.
NextWorkers ==
    \/ \E r \in Requests : \E req \in WorkerRequests : slash(r, req)
    \/ \E r \in Requests : \E req \in WorkerRequests : next_request(r, req)
    \/ \E r \in Requests : SlashStep(r)
    \/ \E r \in Requests : TrafficStep(r)

\* A server started with MIN_REQUESTS_COUNT=2 in its environment.
InitWorkers == Init /\ MIN_REQUESTS_COUNT = 2

SpecWorkers == InitWorkers /\ [][NextWorkers]_vars

(* ------------------------- notions of the claims ---------------------- *)

Key(r) == get_request_key(request[r])

\* The flag of a key in the BrewingState: absent or false is Idle.
Brewing(pots, key) == key \in DOMAIN pots /\ pots[key] = TRUE

Idle(pots, key) == ~Brewing(pots, key)

IsStartRequest(req) == req.op = "slash" /\ reaches_pot(req) /\ req.body = "start"

IsStopRequest(req) == req.op = "slash" /\ reaches_pot(req) /\ req.body = "stop"

\* The requests that have arrived and address the pot of the key.
PotRequestsOn(key) ==
    {r \in Requests : pc[r] # "idle" /\ request[r].op = "slash"
                        /\ reaches_pot(request[r]) /\ Key(r) = key}

\* The calls of increase_traffic_by_request (direct, or made by slash for a
\* start) that computed the second, and those of them that returned a count.
CallsIn(second) == {r \in Requests : cur_second_int[r] = second}

ReturnedIn(second, key) ==
    {r \in CallsIn(second) : Key(r) = key /\ traffic[r] # 0}

Accepted(r) == response[r].code = 202 /\ response[r].text = "Brewing"

Busy(r) == response[r].code = 503 /\ response[r].text = "Pot is busy"

TrafficTooLow(r) == response[r].code = 424

NotBrewing(r) ==
    response[r].code = 400 /\ response[r].text = "No beverage is being brewed by this pot"

MissingContact(r) == response[r].code = 400 /\ response[r].text = "Please set Email header"

NotificationFailure(r) == response[r].code = 500 /\ response[r].text = "Something went wrong"

Finished(r) == response[r].code = 201 /\ response[r].text = "Finished"

AllKeys == {<<a, e>> : a \in Addresses,
                       e \in Range(TEA_VARIANTS) \cup {"earl-gray"}}

(* -------------------------------- C1 ---------------------------------- *)

\* C1: the calls of increase_traffic_by_request on one key that fall within
\* one second return every value from 1 to their number exactly once.  The
\* second is the latest one any call has computed: while no call has read a
\* later second, the counts returned so far for a key in that second are
\* exactly 1..n, n being the number of calls that returned.
C1_CountsAreOneToN ==
    \A key \in AllKeys :
        LET returned == ReturnedIn(now, key)
        IN  /\ {traffic[r] : r \in returned} = 1..Cardinality(returned)
            /\ \A r, q \in returned : traffic[r] = traffic[q] => r = q

\* Calls on one key that all ran at once in one second have returned 1..N.
C1_Witness ==
    \E key \in AllKeys :
        /\ Cardinality(ReturnedIn(now, key)) = NumRequests
        /\ \A r \in Requests : pc[r] = "done" /\ arrived_after[r] = {}
        /\ {traffic[r] : r \in Requests} = 1..NumRequests

(* -------------------------------- C2 ---------------------------------- *)

\* C2 as claimed: two start requests on one fresh key, whatever their
\* interleaving, end with exactly one accepted and exactly one busy.
C2_OneAcceptedOneBusy ==
    \A key \in AllKeys :
        LET on == PotRequestsOn(key)
        IN  (/\ Cardinality(on) = 2
             /\ \A r \in on : IsStartRequest(request[r]) /\ pc[r] = "done")
            => /\ Cardinality({r \in on : Accepted(r)}) = 1
               /\ Cardinality({r \in on : Busy(r)}) = 1

\* C2 amended: on a key of a variant without the traffic gate, when the
\* second start arrives after the first has returned, the first is accepted
\* and the second is busy.
C2_SecondStartIsBusy ==
    \A r, q \in Requests :
        (/\ r # q
         /\ PotRequestsOn(Key(r)) = {r, q}
         /\ IsStartRequest(request[r]) /\ IsStartRequest(request[q])
         /\ ~needs_traffic(request[r])
         /\ r \in arrived_after[q])
        => Accepted(r) /\ Busy(q) /\ pc[q] = "done"

\* A start of english-breakfast was accepted and a later one found it busy.
C2_Witness ==
    \E r, q \in Requests :
        /\ r # q
        /\ PotRequestsOn(Key(r)) = {r, q}
        /\ IsStartRequest(request[r]) /\ IsStartRequest(request[q])
        /\ request[r].endpoint = "english-breakfast"
        /\ r \in arrived_after[q]
        /\ Accepted(r) /\ Busy(q)

(* -------------------------------- C3 ---------------------------------- *)

\* The start requests on a key of the gated variant are the only requests
\* on its pot, there are n of them, all have returned, and all computed the
\* second that is the latest any call has computed.
GatedStarts(key, n) ==
    LET on == PotRequestsOn(key)
    IN  /\ key[2] = HIGH_TRAFFIC_VARIANT
        /\ Cardinality(on) = n
        /\ \A r \in on : /\ IsStartRequest(request[r])
                         /\ pc[r] = "done"
                         /\ cur_second_int[r] = now

\* C3: of MIN_REQUESTS_COUNT concurrent start requests on one idle key of
\* the gated variant within one second exactly one is accepted, and all the
\* others are rejected for too low traffic.
C3_ExactlyOneAccepted ==
    \A key \in AllKeys :
        GatedStarts(key, MIN_REQUESTS_COUNT)
        => /\ Cardinality({r \in PotRequestsOn(key) : Accepted(r)}) = 1
           /\ \A r \in PotRequestsOn(key) : Accepted(r) \/ TrafficTooLow(r)

\* Three starts of earl-grey that ran at once, with the threshold 3.
C3_Witness ==
    \E key \in AllKeys :
        /\ GatedStarts(key, MIN_REQUESTS_COUNT)
        /\ MIN_REQUESTS_COUNT = NumRequests
        /\ \A r \in Requests : arrived_after[r] = {}
        /\ \E r \in Requests : Accepted(r)

(* -------------------------------- C4 ---------------------------------- *)

\* C4: MIN_REQUESTS_COUNT - 1 concurrent start requests on one idle key of
\* the gated variant within one second are all answered 424, the counts
\* their texts report are 1..MIN_REQUESTS_COUNT-1, each once, and the key
\* stays idle.
C4_AllTooLow ==
    \A key \in AllKeys :
        GatedStarts(key, MIN_REQUESTS_COUNT - 1)
        => LET on == PotRequestsOn(key)
           IN  /\ \A r \in on :
                     /\ TrafficTooLow(r)
                     /\ response[r].args = <<key[2], traffic[r], MIN_REQUESTS_COUNT>>
               /\ {response[r].args[2] : r \in on} = 1..(MIN_REQUESTS_COUNT - 1)
               /\ \A r, q \in on : response[r].args[2] = response[q].args[2] => r = q
               /\ Idle(POTS_BREWING, key)

\* Two starts of earl-grey that ran at once, with the threshold 3.
C4_Witness ==
    \E key \in AllKeys :
        /\ MIN_REQUESTS_COUNT = 3
        /\ GatedStarts(key, MIN_REQUESTS_COUNT - 1)
        /\ \A r \in PotRequestsOn(key) : arrived_after[r] = {} /\ TrafficTooLow(r)

(* -------------------------------- C5 ---------------------------------- *)

\* C5 as claimed: after any completed batch of calls of
\* increase_traffic_by_request TRAFFIC holds exactly one second.
C5_OneSecondAfterBatch ==
    (/\ \E r \in Requests : pc[r] = "done"
     /\ \A r \in Requests : pc[r] \in {"idle", "done"})
    => Len(TRAFFIC) = 1

\* Call r returned its count and overlapped no other call: every other call
\* had returned before r arrived, or has not arrived yet.
RanAlone(r) ==
    /\ pc[r] = "done"
    /\ traffic[r] # 0
    /\ \A q \in Requests \ {r} : pc[q] = "idle" \/ q \in arrived_after[r]

\* The calls of the latest second arrived after every call of an earlier
\* second had returned: no call of the latest second overlapped a call of
\* an earlier one.
LatestAfterEarlier ==
    \A r, q \in Requests :
        (pc[r] = "done" /\ pc[q] = "done" /\ cur_second_int[r] < cur_second_int[q]
            /\ cur_second_int[q] = now)
        => r \in arrived_after[q]

\* C5 amended: after a completed batch of calls in which the calls of the
\* latest second, concurrent among themselves or not, arrived after the
\* calls of all earlier seconds had returned, TRAFFIC holds exactly one
\* second, the latest; in particular after a call that overlapped no other
\* call.
C5_OneSecondAfterLatestBatch ==
    /\ (/\ \E r \in Requests : pc[r] = "done"
        /\ \A r \in Requests : pc[r] \in {"idle", "done"}
        /\ LatestAfterEarlier)
       => Len(TRAFFIC) = 1 /\ TRAFFIC[1].second = now
    /\ \A r \in Requests :
          RanAlone(r) => Len(TRAFFIC) = 1 /\ TRAFFIC[1].second = cur_second_int[r]

\* A call in second 0 returned, then the clock advanced and two calls in
\* second 1 ran concurrently: only second 1 is left.
C5_Witness ==
    \E r, q, x \in Requests :
        /\ q # x
        /\ pc[r] = "done" /\ pc[q] = "done" /\ pc[x] = "done"
        /\ cur_second_int[r] < cur_second_int[q]
        /\ cur_second_int[q] = cur_second_int[x]
        /\ r \in arrived_after[q] /\ r \in arrived_after[x]
        /\ q \notin arrived_after[x] /\ x \notin arrived_after[q]
        /\ TrafficKeys(TRAFFIC) = <<cur_second_int[q]>>

(* -------------------------------- C6 ---------------------------------- *)

\* Every other request on the pot of r's key had returned before r arrived.
Undisturbed(r) == \A x \in PotRequestsOn(Key(r)) \ {r} : x \in arrived_after[r]

\* p is an accepted start, q a stop with a contact that arrived after p had
\* returned and was answered 201 (the notifier having succeeded), both on
\* one key, and but for later arrivals nothing else overlapped the stop.
StartedThenStopped(p, q) ==
    /\ IsStartRequest(request[p]) /\ Accepted(p)
    /\ IsStopRequest(request[q]) /\ Finished(q)
    /\ ~email_missing(request[q]) /\ email_calls[q] = <<"returned">>
    /\ Key(p) = Key(q)
    /\ p \in arrived_after[q]

\* C6: after an accepted start and a stop with a contact and a succeeding
\* notifier the key is idle again: a start that arrives next is not busy, it
\* is accepted, or on the gated variant rejected for too low traffic only.
C6_RoundTrip ==
    \A p, q \in Requests :
        StartedThenStopped(p, q)
        => /\ (PotRequestsOn(Key(q)) \ {q} \subseteq arrived_after[q])
                => Idle(POTS_BREWING, Key(q))
           /\ \A r \in PotRequestsOn(Key(q)) \ {p, q} :
                 (/\ IsStartRequest(request[r])
                  /\ q \in arrived_after[r]
                  /\ PotRequestsOn(Key(q)) \ {q, r} \subseteq arrived_after[q])
                 => /\ is_brewing[r] = FALSE
                    /\ ~Busy(r)
                    /\ pc[r] = "done" =>
                          \/ Accepted(r)
                          \/ needs_traffic(request[r]) /\ TrafficTooLow(r)

\* start, stop, start on one key in turn: 202, 201, 202.
C6_Witness ==
    \E p, q, r \in Requests :
        /\ StartedThenStopped(p, q)
        /\ IsStartRequest(request[r]) /\ Key(r) = Key(q)
        /\ q \in arrived_after[r]
        /\ Accepted(r)

(* -------------------------------- C7 ---------------------------------- *)

\* C7: when email_client.send raises in a stop on a brewing key, the stop
\* is answered 500, send is not called again for the request, and the
\* request leaves the key brewing: with no other request on the key since,
\* the key is still brewing.
C7_NotifierFailure ==
    \A r \in Requests :
        (\E i \in DOMAIN email_calls[r] : email_calls[r][i] = "raised")
        => /\ pc[r] = "done"
           /\ NotificationFailure(r)
           /\ email_calls[r] = <<"raised">>
           /\ Undisturbed(r) => Brewing(POTS_BREWING, Key(r))

\* A stop whose notifier raised: answered 500, the key still brewing.
C7_Witness ==
    \E r \in Requests :
        /\ IsStopRequest(request[r])
        /\ email_calls[r] = <<"raised">>
        /\ NotificationFailure(r)
        /\ Undisturbed(r)
        /\ Brewing(POTS_BREWING, Key(r))

(* ------------------------------ C8 - C10 ------------------------------ *)

\* Request r arrives in this step.
Arrives(r) == pc[r] = "idle" /\ pc'[r] # "idle"

\* This step answers r and changes neither the brewing state nor the
\* notifier's calls for r.
AnsweredAtOnce(r) ==
    /\ pc'[r] = "done"
    /\ POTS_BREWING' = POTS_BREWING
    /\ email_calls'[r] = <<>>

\* C8: a stop that arrives while its key is idle (never started, or
\* stopped) is answered "No beverage is being brewed", with or without a
\* contact; it leaves the brewing state as it is and does not call the
\* notifier.
C8_StopOnIdle ==
    [][\A r \in Requests :
          (/\ Arrives(r)
           /\ IsStopRequest(request'[r])
           /\ Idle(POTS_BREWING, get_request_key(request'[r])))
          => AnsweredAtOnce(r) /\ NotBrewing(r)']_vars

\* A stop with a contact on a key that was never started was turned away.
C8_Witness ==
    \E r \in Requests :
        /\ IsStopRequest(request[r])
        /\ ~email_missing(request[r])
        /\ Key(r) \notin DOMAIN POTS_BREWING
        /\ NotBrewing(r)

\* C9: a stop that arrives while its key is brewing and carries no Email
\* header or an empty one is answered "Please set Email header"; the key
\* stays brewing and the notifier is not called.
C9_StopWithoutContact ==
    [][\A r \in Requests :
          (/\ Arrives(r)
           /\ IsStopRequest(request'[r])
           /\ Brewing(POTS_BREWING, get_request_key(request'[r]))
           /\ request'[r].email \in {Absent, ""})
          => /\ AnsweredAtOnce(r) /\ MissingContact(r)'
             /\ Brewing(POTS_BREWING', get_request_key(request'[r]))]_vars

\* A stop with an empty Email header on a brewing key was turned away.
C9_Witness ==
    \E r \in Requests :
        /\ IsStopRequest(request[r])
        /\ request[r].email = ""
        /\ MissingContact(r)
        /\ Brewing(POTS_BREWING, Key(r))

\* C10: a start that arrives while its key is brewing is answered "Pot is
\* busy" and the key stays brewing, on the gated variant as on the other.
C10_StartOnBrewing ==
    [][\A r \in Requests :
          (/\ Arrives(r)
           /\ IsStartRequest(request'[r])
           /\ Brewing(POTS_BREWING, get_request_key(request'[r])))
          => /\ AnsweredAtOnce(r) /\ Busy(r)'
             /\ Brewing(POTS_BREWING', get_request_key(request'[r]))]_vars

\* A start found earl-grey, which enough traffic had started, busy.
C10_Witness ==
    \E r \in Requests :
        /\ IsStartRequest(request[r])
        /\ needs_traffic(request[r])
        /\ Busy(r)
        /\ Brewing(POTS_BREWING, Key(r))

(* -------------------------------- C11 --------------------------------- *)

\* The places of a worker inside increase_traffic_by_request.
InIncreaseTraffic == {"time", "acquire_del", "clear", "acquire_add", "create", "fetch",
                      "acquire_inc", "write"}

\* Request r is a start of the gated variant that read its key as idle.
GatedStartOnIdle(r) ==
    /\ IsStartRequest(request[r])
    /\ needs_traffic(request[r])
    /\ is_brewing[r] = FALSE

\* This step is the end of r's call of increase_traffic_by_request.
LeavesIncreaseTraffic(r) == pc[r] \in InIncreaseTraffic /\ pc'[r] \notin InIncreaseTraffic

\* This step adds exactly one to the count of r's key in the counter dict r
\* holds for the second it computed, and changes no other count.
CountsOnce(r) ==
    LET c == cur_second_counter[r]
    IN  /\ c \in DOMAIN counters
        /\ DOMAIN counters' = DOMAIN counters
        /\ counters'[c] = DictSet(counters[c], Key(r), DictGet(counters[c], Key(r), 0) + 1)
        /\ \A d \in DOMAIN counters \ {c} : counters'[d] = counters[d]
        /\ traffic'[r] = counters'[c][Key(r)]

\* C11: every start on an idle key of the gated variant ends its call of
\* increase_traffic_by_request having added exactly one to the count of its
\* key in the second it computed; it goes on to start the brewing exactly
\* when the new count is at least MIN_REQUESTS_COUNT and is answered 424
\* exactly when the count is below it, and the start that goes on is accepted.
C11_GatedStartCounts ==
    [][\A r \in Requests :
          /\ (GatedStartOnIdle(r) /\ LeavesIncreaseTraffic(r))
             => /\ CountsOnce(r)
                /\ pc'[r] = "set_true" <=> traffic'[r] >= MIN_REQUESTS_COUNT
                /\ (pc'[r] = "done" /\ TrafficTooLow(r)')
                       <=> traffic'[r] < MIN_REQUESTS_COUNT
          /\ (GatedStartOnIdle(r) /\ pc[r] = "set_true" /\ pc'[r] # "set_true")
             => Accepted(r)' /\ Brewing(POTS_BREWING', Key(r))]_vars

(* -------------------------------- C12 --------------------------------- *)

\* A supported variant other than the high traffic one.
IsUngatedVariant(endpoint) ==
    endpoint \in Range(TEA_VARIANTS) /\ endpoint # HIGH_TRAFFIC_VARIANT

\* This step leaves the traffic window, its counters and its locks alone,
\* and r has not called increase_traffic_by_request.
LeavesTrafficAlone(r) ==
    /\ TRAFFIC' = TRAFFIC
    /\ counters' = counters
    /\ TRAFFIC_LOCK_INCREASE' = TRAFFIC_LOCK_INCREASE
    /\ TRAFFIC_LOCK_ADD_SECOND' = TRAFFIC_LOCK_ADD_SECOND
    /\ TRAFFIC_LOCK_DEL_SECOND' = TRAFFIC_LOCK_DEL_SECOND
    /\ cur_second_int'[r] = NoSecond
    /\ traffic'[r] = 0

\* C12: a start that arrives while its key is idle, on a supported variant
\* other than the gated one, goes straight on to start the brewing, and
\* its next step answers 202 with the key brewing, whatever TRAFFIC holds;
\* neither step changes the traffic window or calls
\* increase_traffic_by_request.
C12_UngatedStartAccepted ==
    [][\A r \in Requests :
          /\ (/\ Arrives(r)
              /\ IsStartRequest(request'[r])
              /\ IsUngatedVariant(request'[r].endpoint)
              /\ Idle(POTS_BREWING, get_request_key(request'[r])))
             => /\ pc'[r] = "set_true"
                /\ POTS_BREWING' = POTS_BREWING
                /\ LeavesTrafficAlone(r)
          /\ (/\ pc[r] # "idle" /\ pc'[r] # pc[r]
              /\ IsStartRequest(request[r])
              /\ IsUngatedVariant(request[r].endpoint)
              /\ is_brewing[r] = FALSE)
             => /\ pc'[r] = "done"
                /\ Accepted(r)'
                /\ Brewing(POTS_BREWING', Key(r))
                /\ LeavesTrafficAlone(r)]_vars

\* A start of english-breakfast was accepted on an idle key after a start
\* of earl-grey had been rejected for too low traffic, the count of which
\* TRAFFIC still holds.
C12_Witness ==
    \E r, q \in Requests :
        /\ IsStartRequest(request[r])
        /\ IsUngatedVariant(request[r].endpoint)
        /\ is_brewing[r] = FALSE
        /\ Accepted(r)
        /\ Brewing(POTS_BREWING, Key(r))
        /\ q \in arrived_after[r]
        /\ TrafficTooLow(q)
        /\ TRAFFIC # <<>>
        /\ cur_second_int[r] = NoSecond

(* -------------------------------- C13 --------------------------------- *)

Unsupported(r) ==
    /\ response[r].code = 503
    /\ response[r].text = "is not supported for this pot"
    /\ response[r].args = <<request[r].endpoint>>

\* C13: a BREW request for a variant that is not in TEA_VARIANTS is answered
\* 503 "is not supported for this pot" in the step of its arrival, whatever
\* its body and its content type: the brewing state is not looked up and not
\* changed, the traffic window is left alone and the notifier is not called.
C13_UnsupportedVariant ==
    [][\A r \in Requests :
          (/\ Arrives(r)
           /\ request'[r].op = "slash"
           /\ request'[r].method = "BREW"
           /\ request'[r].endpoint # ""
           /\ request'[r].endpoint \notin Range(TEA_VARIANTS))
          => /\ AnsweredAtOnce(r) /\ Unsupported(r)'
             /\ is_brewing'[r] = None
             /\ LeavesTrafficAlone(r)]_vars

\* A stop for unsupported-tea with another content type was answered 503
\* while a pot was brewing, and so was a start with the teapot content type.
C13_Witness ==
    \E r, q \in Requests :
        /\ Unsupported(r) /\ Unsupported(q)
        /\ request[r].body = "stop" /\ request[r].content_type # TEA_CONTENT_TYPE
        /\ request[q].body = "start" /\ request[q].content_type = TEA_CONTENT_TYPE
        /\ \E key \in AllKeys : Brewing(POTS_BREWING, key)

(* -------------------------------- C14 --------------------------------- *)

\* A BREW request on a supported variant whose body is no command.
IsMalformedRequest(req) ==
    /\ req.op = "slash"
    /\ req.method = "BREW"
    /\ req.endpoint \in Range(TEA_VARIANTS)
    /\ req.body \notin {"start", "stop"}

BadRequest(r) == response[r].code = 400 /\ response[r].text = ""

\* C14: a BREW request on a supported variant whose body is neither start
\* nor stop is answered with a bare 400 in the step of its arrival, be its
\* key idle or brewing: the brewing state stays as it is, the traffic window
\* is left alone and the notifier is not called.
C14_MalformedBody ==
    [][\A r \in Requests :
          (Arrives(r) /\ IsMalformedRequest(request'[r]))
          => /\ AnsweredAtOnce(r) /\ BadRequest(r)'
             /\ LeavesTrafficAlone(r)]_vars

\* A request with the body "when" and an Email header was answered 400 on a
\* brewing key, which still brews, and one with an empty body on an idle key.
C14_Witness ==
    \E r, q \in Requests :
        /\ IsMalformedRequest(request[r]) /\ reaches_pot(request[r])
        /\ is_brewing[r] = TRUE
        /\ ~email_missing(request[r])
        /\ BadRequest(r)
        /\ Brewing(POTS_BREWING, Key(r))
        /\ IsMalformedRequest(request[q]) /\ reaches_pot(request[q])
        /\ is_brewing[q] = FALSE
        /\ BadRequest(q)
        /\ Idle(POTS_BREWING, Key(q))

(* -------------------------------- C15 --------------------------------- *)

\* Request r calls set_brewing_state in this step.
SetsBrewingState(r) == pc[r] \in {"set_true", "set_false"} /\ pc'[r] # pc[r]

\* C15: set_brewing_state for a request changes the flag of the request's
\* key only: afterwards get_brewing_state gives the value set for a request
\* of the same client and variant, and what it gave before for every request
\* of another client or of another variant.
C15_SetStateOfOneKey ==
    [][\A r \in Requests :
          SetsBrewingState(r)
          => /\ get_brewing_state(POTS_BREWING', request[r]) = (pc[r] = "set_true")
             /\ \A other \in PotRequests :
                   ClientAndVariant(other) # ClientAndVariant(request[r])
                   => get_brewing_state(POTS_BREWING', other)
                        = get_brewing_state(POTS_BREWING, other)]_vars

\* english-breakfast was started for two clients and stopped for the first:
\* the second client's pot still brews, and the first client's earl-grey
\* was never written.
C15_Witness ==
    \E r \in Requests :
        /\ IsStopRequest(request[r]) /\ Finished(r)
        /\ ClientAndVariant(request[r]) = <<"127.0.0.1", "english-breakfast">>
        /\ POTS_BREWING[<<"127.0.0.1", "english-breakfast">>] = FALSE
        /\ Brewing(POTS_BREWING, <<"127.0.0.2", "english-breakfast">>)
        /\ <<"127.0.0.1", "earl-grey">> \notin DOMAIN POTS_BREWING

(* -------------------------------- C16 --------------------------------- *)

\* C16: get_brewing_state, which slash calls in the step of a request's
\* arrival, gives False for a client and variant no set_brewing_state has
\* completed for, and else the state of the latest set_brewing_state that
\* completed for them, whichever worker made it; the step changes neither
\* the brewing state nor anything else that is shared.
C16_GetStateReadsLatestSet ==
    [][\A r \in Requests :
          (Arrives(r) /\ request'[r].op = "slash" /\ reaches_pot(request'[r]))
          => /\ is_brewing'[r] =
                   IF ClientAndVariant(request'[r]) \in DOMAIN last_set_state
                     THEN last_set_state[ClientAndVariant(request'[r])]
                     ELSE FALSE
             /\ shared' = shared
             /\ last_set_state' = last_set_state]_vars

\* A stop read the True a start of another worker had set, and after it had
\* set False a third request read False; a key never written reads False.
C16_Witness ==
    \E p, q, r \in Requests :
        /\ IsStartRequest(request[p]) /\ is_brewing[p] = FALSE /\ Accepted(p)
        /\ IsStopRequest(request[q]) /\ is_brewing[q] = TRUE /\ Finished(q)
        /\ reaches_pot(request[r]) /\ is_brewing[r] = FALSE
        /\ ClientAndVariant(request[p]) = ClientAndVariant(request[q])
        /\ ClientAndVariant(request[q]) = ClientAndVariant(request[r])
        /\ p \in arrived_after[q] /\ q \in arrived_after[r]
        /\ last_set_state[ClientAndVariant(request[r])] = FALSE

(* -------------------------------- C17 --------------------------------- *)

\* The calls for a client and variant that computed the second and returned.
ReturnedFor(second, client_and_variant) ==
    {r \in CallsIn(second) : ClientAndVariant(request[r]) = client_and_variant
                                /\ traffic[r] # 0}

\* The counts the calls returned are 1..n, each once.
ReturnedOneToN(calls) ==
    /\ {traffic[r] : r \in calls} = 1..Cardinality(calls)
    /\ \A r, q \in calls : traffic[r] = traffic[q] => r = q

\* C17: the counts of different keys within one second are independent.
\* The step of increase_or_set that stores the new count changes the count
\* of no other client or variant in any counter dict; and when calls for two
\* different keys (another client, or another variant) have returned within
\* one second, the latest any call computed, the values returned for each
\* of the two keys are 1..n, n being the number of calls for that key.
C17_KeysCountApart ==
    [][/\ \A r \in Requests :
            (pc[r] = "write" /\ pc'[r] # "write")
            => \A other \in TrafficCalls \cup PotRequests :
                  ClientAndVariant(other) # ClientAndVariant(request[r])
                  => \A d \in DOMAIN counters :
                        DictGet(counters'[d], get_request_key(other), 0)
                          = DictGet(counters[d], get_request_key(other), 0)
       /\ \A a, b \in AllKeys :
            (/\ a # b
             /\ ReturnedFor(now, a)' # {}
             /\ ReturnedFor(now, b)' # {})
            => ReturnedOneToN(ReturnedFor(now, a))' /\ ReturnedOneToN(ReturnedFor(now, b))']_vars

\* All the calls ran at once in one second, for two clients of one variant
\* or two variants of one client; each key's calls returned 1..n.
C17_Witness ==
    \E a, b \in AllKeys :
        /\ a # b
        /\ Cardinality(ReturnedFor(now, a)) = NumRequests - 1
        /\ Cardinality(ReturnedFor(now, b)) = 1
        /\ \A r \in Requests : pc[r] = "done" /\ arrived_after[r] = {}
        /\ {traffic[r] : r \in ReturnedFor(now, a)} = 1..(NumRequests - 1)
        /\ {traffic[r] : r \in ReturnedFor(now, b)} = {1}

(* -------------------------------- C18 --------------------------------- *)

\* The worker of request r holds one of the traffic locks.
HoldsLock(r) ==
    \/ TRAFFIC_LOCK_DEL_SECOND = r
    \/ TRAFFIC_LOCK_ADD_SECOND = r
    \/ TRAFFIC_LOCK_INCREASE = r

\* The worker of request r is inside email_client.send.
InNotifier(r) == pc[r] = "send"

\* The worker of request q is blocked in the acquire() of a lock that the
\* worker of request x holds.
WaitsForLockOf(q, x) ==
    \/ pc[q] = "acquire_del" /\ TRAFFIC_LOCK_DEL_SECOND = x
    \/ pc[q] = "acquire_add" /\ TRAFFIC_LOCK_ADD_SECOND = x
    \/ pc[q] = "acquire_inc" /\ TRAFFIC_LOCK_INCREASE = x

\* C18: a worker inside email_client.send holds none of the three traffic
\* locks, and it keeps no other worker from going on: every other request
\* that has arrived and not returned can take its next step, unless it is
\* waiting for a lock that a third worker holds.
C18_NotifierHoldsNoLock ==
    \A r \in Requests :
        InNotifier(r)
        => /\ ~HoldsLock(r)
           /\ \A q \in Requests \ {r} :
                 pc[q] \notin {"idle"} \cup Returned
                 => \/ ENABLED (SlashStep(q) \/ TrafficStep(q))
                    \/ \E x \in Requests \ {r, q} : WaitsForLockOf(q, x)

\* While a stop was inside email_client.send, a start on another key
\* arrived, went through the three traffic locks and was answered.
C18_Witness ==
    \E r, q \in Requests :
        /\ InNotifier(r)
        /\ q > r
        /\ ClientAndVariant(request[q]) # ClientAndVariant(request[r])
        /\ IsStartRequest(request[q])
        /\ traffic[q] # 0
        /\ pc[q] = "done"

(* -------------------------------- C19 --------------------------------- *)

\* The worker of request r is in the cleanup loop of lines 98-100.
InCleanup(r) == pc[r] = "clear"

\* The worker of request r is at line 97 and another worker holds
\* TRAFFIC_LOCK_DEL_SECOND.
FindsCleanupLockHeld(r) ==
    pc[r] = "acquire_del" /\ TRAFFIC_LOCK_DEL_SECOND \notin {0, r}

\* C19: at most one caller is in the cleanup at a time, and a caller that
\* finds TRAFFIC_LOCK_DEL_SECOND held does not wait for it: it can go on at
\* once, to the creation of the bucket (line 104) and without any cleanup.
C19_CleanupSkippedWhenLocked ==
    /\ \A r, q \in Requests : InCleanup(r) /\ InCleanup(q) => r = q
    /\ \A r \in Requests :
          FindsCleanupLockHeld(r)
          => ENABLED (/\ TrafficStep(r)
                      /\ pc'[r] = "acquire_add"
                      /\ TRAFFIC' = TRAFFIC)

(* -------------------------------- C20 --------------------------------- *)

\* The traffic locks the worker r has acquired and not released, in its
\* current call or in one before it.
LocksHeldBy(r) ==
    {lock \in {"TRAFFIC_LOCK_DEL_SECOND", "TRAFFIC_LOCK_ADD_SECOND", "TRAFFIC_LOCK_INCREASE"} :
        \/ lock = "TRAFFIC_LOCK_DEL_SECOND" /\ TRAFFIC_LOCK_DEL_SECOND = r
        \/ lock = "TRAFFIC_LOCK_ADD_SECOND" /\ TRAFFIC_LOCK_ADD_SECOND = r
        \/ lock = "TRAFFIC_LOCK_INCREASE" /\ TRAFFIC_LOCK_INCREASE = r}

\* C20: in every reachable state no worker holds more than one of the three
\* traffic locks: the lock of a phase is released before the lock of the
\* next phase is acquired.  It holds as long as every worker makes one call
\* (SpecTraffic); with workers that serve request after request (SpecWorkers) the
\* worker whose call raised KeyError at line 111 still holds
\* TRAFFIC_LOCK_ADD_SECOND when its next call acquires
\* TRAFFIC_LOCK_DEL_SECOND at line 97.
C20_OneLockPerWorker ==
    \A r \in Requests : Cardinality(LocksHeldBy(r)) <= 1

(* -------------------------------- C21 --------------------------------- *)

\* No call of increase_traffic_by_request is in progress.
NoCallInProgress == \A r \in Requests : pc[r] \notin InIncreaseTraffic

AllLocksFree ==
    /\ TRAFFIC_LOCK_DEL_SECOND = 0
    /\ TRAFFIC_LOCK_ADD_SECOND = 0
    /\ TRAFFIC_LOCK_INCREASE = 0

\* C21: under fair scheduling every call of increase_traffic_by_request
\* returns a count in the end, and whenever no call is in progress the three
\* traffic locks are free, whatever the interleaving and whatever seconds
\* the callers computed.
C21_EveryCallReturns ==
    /\ \A r \in Requests :
          (pc[r] \in InIncreaseTraffic) ~> (pc[r] = "done" /\ traffic[r] # 0)
    /\ [](NoCallInProgress => AllLocksFree)

(* -------------------------------- C22 --------------------------------- *)

\* The seconds that have a bucket in the traffic window.
SecondsIn(window) == Range(TrafficKeys(window))

\* The seconds whose bucket this step removes from TRAFFIC.
Evicted == SecondsIn(TRAFFIC) \ SecondsIn(TRAFFIC')

\* C22: the cleanup of a call that computed the second c removes every
\* bucket with a second before c and no other.  The step that lists
\* TRAFFIC.keys() keeps for deletion exactly the seconds below c that have a
\* bucket; each later step of the loop removes the next of them, and nothing
\* else, and the loop goes on until none is left.  No step removes a bucket
\* of a second that is not below the second its caller computed; so the
\* bucket of the current second of the clock is never evicted.
C22_CleanupRemovesOldSeconds ==
    [][/\ \A r \in Requests :
            /\ (pc[r] = "acquire_del" /\ pc'[r] # "acquire_del")
               => /\ Range(seconds_left'[r])
                       = {second \in SecondsIn(TRAFFIC) : second < cur_second_int[r]}
                  /\ Evicted = {}
                  /\ pc'[r] = "clear" <=> seconds_left'[r] # <<>>
            /\ (pc[r] = "clear" /\ seconds_left'[r] # seconds_left[r])
               => /\ Evicted = {Head(seconds_left[r])}
                  /\ Head(seconds_left[r]) < cur_second_int[r]
                  /\ Range(seconds_left'[r]) = Range(seconds_left[r]) \ Evicted
                  /\ Range(seconds_left'[r]) \subseteq SecondsIn(TRAFFIC')
                  /\ \A i \in DOMAIN TRAFFIC' : \E j \in DOMAIN TRAFFIC : TRAFFIC'[i] = TRAFFIC[j]
                  /\ pc'[r] = "clear" <=> seconds_left'[r] # <<>>
       /\ \A second \in Evicted :
            /\ second < now'
            /\ \E r \in Requests : pc[r] = "clear" /\ second < cur_second_int[r]]_vars

\* A call that computed second 2 holds TRAFFIC_LOCK_DEL_SECOND and has
\* listed the buckets of the seconds 0 and 1, both to be removed, while the
\* calls that made them have returned.
C22_Witness ==
    \E r \in Requests :
        /\ pc[r] = "clear"
        /\ TRAFFIC_LOCK_DEL_SECOND = r
        /\ cur_second_int[r] = 2
        /\ Len(seconds_left[r]) = 2
        /\ Range(seconds_left[r]) = {0, 1}
        /\ SecondsIn(TRAFFIC) = {0, 1}
        /\ \A p \in Requests \ {r} : pc[p] = "done"

(* -------------------------------- C23 --------------------------------- *)

\* Two different calls for one client and variant that computed the same
\* second and have both returned a count.
SameSecondAndKey(r, q) ==
    /\ r # q
    /\ traffic[r] # 0 /\ traffic[q] # 0
    /\ ClientAndVariant(request[r]) = ClientAndVariant(request[q])
    /\ cur_second_int[r] = cur_second_int[q]

\* C23 as claimed: whatever seconds the callers computed and however they
\* interleave, no two calls with the same key and the same computed second
\* return the same count.
C23_NoDuplicateCounts ==
    \A r, q \in Requests : SameSecondAndKey(r, q) => traffic[r] # traffic[q]

\* C23 amended: two calls with the same key and the same computed second
\* that used the same bucket return different counts, also when the bucket
\* has been evicted meanwhile; and they used the same bucket unless a caller
\* has computed a later second, whose cleanup alone evicts the bucket.
C23_NoDuplicateCountsInOneBucket ==
    \A r, q \in Requests :
        SameSecondAndKey(r, q)
        => /\ cur_second_counter[r] = cur_second_counter[q] => traffic[r] # traffic[q]
           /\ cur_second_int[r] = now => cur_second_counter[r] = cur_second_counter[q]

\* Two calls of second 0 on one key used one bucket and returned 1 and 2,
\* the second of them after a caller of second 1 had evicted the bucket.
C23_Witness ==
    \E r, q \in Requests :
        /\ SameSecondAndKey(r, q)
        /\ cur_second_int[r] < now
        /\ cur_second_counter[r] = cur_second_counter[q]
        /\ cur_second_int[r] \notin SecondsIn(TRAFFIC)
        /\ {traffic[r], traffic[q]} = {1, 2}
        /\ pc[r] = "done" /\ pc[q] = "done"

(* -------------------------------- C24 --------------------------------- *)

\* The starts on the pot of a key that were accepted, the stops that were
\* answered 201, and the stops for which email_client.send returned.
AcceptedStarts(key) ==
    {r \in Requests : IsStartRequest(request[r]) /\ ClientAndVariant(request[r]) = key
                        /\ Accepted(r)}

FinishedStops(key) ==
    {r \in Requests : IsStopRequest(request[r]) /\ ClientAndVariant(request[r]) = key
                        /\ Finished(r)}

NotifiedStops(key) ==
    {r \in Requests : IsStopRequest(request[r]) /\ ClientAndVariant(request[r]) = key
                        /\ \E i \in DOMAIN email_calls[r] : email_calls[r][i] = "returned"}

\* The stops that have arrived for the key.
StopsOn(key) ==
    {r \in Requests : pc[r] # "idle" /\ IsStopRequest(request[r])
                        /\ ClientAndVariant(request[r]) = key}

\* C24 as claimed: however the stops on a key interleave, there is at most
\* one stop answered 201 and at most one successful call of the notifier for
\* each accepted start on the key.
C24_OneStopPerStart ==
    \A key \in AllKeys :
        /\ Cardinality(FinishedStops(key)) <= Cardinality(AcceptedStarts(key))
        /\ Cardinality(NotifiedStops(key)) <= Cardinality(AcceptedStarts(key))

\* No two stops on the key overlap: of any two, one had returned when the
\* other arrived.
StopsInTurn(key) ==
    \A r, q \in StopsOn(key) : r # q => r \in arrived_after[q] \/ q \in arrived_after[r]

\* C24 amended: when the stops on a key do not overlap one another, there
\* is at most one stop answered 201 and at most one successful call of the
\* notifier for each accepted start on the key.
C24_OneStopPerStartInTurn ==
    \A key \in AllKeys :
        StopsInTurn(key)
        => /\ Cardinality(FinishedStops(key)) <= Cardinality(AcceptedStarts(key))
           /\ Cardinality(NotifiedStops(key)) <= Cardinality(AcceptedStarts(key))

\* After one accepted start a stop was answered 201, and a second stop with
\* a contact, which arrived after the first had returned, was turned away
\* without a call of the notifier.
C24_Witness ==
    \E p, q, r \in Requests :
        /\ StartedThenStopped(p, q)
        /\ IsStopRequest(request[r]) /\ ~email_missing(request[r])
        /\ ClientAndVariant(request[r]) = ClientAndVariant(request[q])
        /\ q \in arrived_after[r]
        /\ NotBrewing(r)
        /\ email_calls[r] = <<>>
        /\ Cardinality(AcceptedStarts(ClientAndVariant(request[q]))) = 1

(* -------------------------------- C25 --------------------------------- *)

\* The flag of the key is Idle before the step and Brewing after it.
BecomesBrewing(key) == Idle(POTS_BREWING, key) /\ Brewing(POTS_BREWING', key)

\* Request r completes a set_brewing_state call that leaves its key Brewing.
WritesBrewing(r) ==
    SetsBrewingState(r) /\ Brewing(POTS_BREWING', ClientAndVariant(request[r]))

\* C25: a flag becomes Brewing only in the set_brewing_state call of a
\* request on that key, and a request that writes Brewing is a start that
\* read its key as Idle, whose own increment returned at least
\* MIN_REQUESTS_COUNT if its variant is the gated one, and that is answered
\* 202; no stop, rejected start, malformed or unsupported request does so.
C25_OnlyAdmittedStartsSetBrewing ==
    [][ /\ \A key \in DOMAIN POTS_BREWING' :
              BecomesBrewing(key)
              => \E r \in Requests : WritesBrewing(r) /\ ClientAndVariant(request[r]) = key
        /\ \A r \in Requests :
              WritesBrewing(r)
              => /\ request[r].body = "start"
                 /\ request[r].endpoint \in Range(TEA_VARIANTS)
                 /\ is_brewing[r] = FALSE
                 /\ request[r].endpoint = HIGH_TRAFFIC_VARIANT
                        => traffic[r] >= MIN_REQUESTS_COUNT
                 /\ Accepted(r)'
      ]_vars

\* A start of the gated variant was answered 424 and left the flag alone,
\* and a later one on the same key, which read Idle and counted up to the
\* threshold, has set the flag to Brewing.
C25_Witness ==
    \E p, r \in Requests :
        /\ p # r
        /\ request[r].endpoint = HIGH_TRAFFIC_VARIANT
        /\ ClientAndVariant(request[p]) = ClientAndVariant(request[r])
        /\ TrafficTooLow(p) /\ pc[p] = "done"
        /\ Accepted(r) /\ pc[r] = "done"
        /\ is_brewing[r] = FALSE
        /\ traffic[r] >= MIN_REQUESTS_COUNT
        /\ Brewing(POTS_BREWING, ClientAndVariant(request[r]))
        /\ \A q \in Requests \ {p, r} : pc[q] = "done" /\ ~Accepted(q)

====
